---------------------------- MODULE Spec2Model ----------------------------
(***************************************************************************)
(* Model of fakecore/ringbuf, src/src/core.rs: the broadcast queue         *)
(* MsgQueue, its registry MsgQueueInner, the handles MsgQueueWriter and    *)
(* MsgQueueReader, and the paged circular buffer BufferCache.              *)
(*                                                                         *)
(* Conventions.                                                            *)
(*  - A u64 is modelled by the integer with the same 64-bit two's          *)
(*    complement pattern: a value below 2^63 by itself, a value v at or    *)
(*    above 2^63 by v - 2^64.  Wrapping + and - are then integer + and -   *)
(*    (the model stays far from 2^63) and comparisons are unsigned (ULt).  *)
(*  - overflow_checks is the build profile: TRUE for a build with          *)
(*    arithmetic overflow checks (debug, `cargo test`), where an overflow  *)
(*    panics, FALSE for a build without (release), where it wraps.         *)
(*  - A panic (overflow check, index out of range, assert_eq!, unwrap on   *)
(*    None) aborts the caller: the model names the call in panic_at and    *)
(*    stops.                                                               *)
(*  - cache is the page table Vec<Vec<T>>.  Its length always equals       *)
(*    buf_length and every page has page_size slots (new, set_fixed_mode,  *)
(*    set_dynamic_mode, and resize at line 324 keep them equal), so it is  *)
(*    stored as the function from the slots <<page, offset>> that hold a   *)
(*    value other than T::default() to that value.                         *)
(*  - The elements of the k-th batch written are the integers              *)
(*    total+1 .. total+n, total being the number of elements written       *)
(*    before: every element ever written is distinct and non-default.      *)
(***************************************************************************)
EXTENDS Integers, Sequences, FiniteSets, TLC

\* ------------------------------------------------------------------ bounds
MaxPageSize  == 2    \* block_length given to set_fixed / set_dynamic: 1..MaxPageSize
MaxPageCount == 3    \* buf_size given to set_fixed: 2..MaxPageCount
MaxConsumers == 2    \* consumer ids 0..MaxConsumers-1
MaxProducers == 2    \* producer handles minted
MaxTotal     == 4    \* elements written over a run
MaxRead      == 3    \* elements returned by reads over a run, plus the length of the next read

\* ------------------------------------------------------- program constants
DefaultPageSize  == 4096   \* BufferCache::new, page_size
DefaultBufLength == 2      \* BufferCache::new, buf_length
DynamicBufLength == 2      \* set_dynamic_mode, buf_length
DefaultT         == 0      \* T::default(), the value of a slot never written

VARIABLES
    inner,            \* MsgQueueInner: [buf, mode, buf_size, block_length]
    serial_no,        \* MsgQueue.serial_no
    running,          \* MsgQueue.running
    producers,        \* number of MsgQueueWriter handles minted
    readers,          \* ids of the MsgQueueReader handles minted
    panic_at,         \* "none", or the call that panicked
    overflow_checks,  \* build profile (see above)
    total,            \* history: number of elements written so far
    written,          \* history: per buffer id, the batches broadcast to it, concatenated
    readout,          \* history: per buffer id, the results of its reads, concatenated
    overflowed        \* history: ids of the Fixed buffers a write has overflowed

vars == <<inner, serial_no, running, producers, readers, panic_at,
          overflow_checks, total, written, readout, overflowed>>

\* ------------------------------------------------------------- arithmetic
\* a < b on u64
ULt(a, b) == IF (a < 0) = (b < 0) THEN a < b ELSE b < 0

\* math::round::ceil(n as f64 / d as f64, 0) as u64, for n >= 0 and d > 0
CeilDiv(n, d) == (n + d - 1) \div d

\* a & b on u64, for a, b >= 0
RECURSIVE BitAnd(_, _)
BitAnd(a, b) ==
    IF a = 0 \/ b = 0 THEN 0
    ELSE 2 * BitAnd(a \div 2, b \div 2) + (IF a % 2 = 1 /\ b % 2 = 1 THEN 1 ELSE 0)

\* ------------------------------------------------------------- page table
EmptyCache == [k \in {} |-> DefaultT]

\* cache[p][o]
CacheGet(c, p, o) == IF <<p, o>> \in DOMAIN c THEN c[<<p, o>>] ELSE DefaultT

\* cache[p][o] = v
CachePut(c, p, o, v) ==
    LET k == <<p, o>>
        D == IF v = DefaultT THEN DOMAIN c \ {k} ELSE DOMAIN c \cup {k}
    IN  [x \in D |-> IF x = k THEN v ELSE c[x]]

\* p, o index an existing slot of b.cache
InRange(b, p, o) == p >= 0 /\ p < b.buf_length /\ o >= 0 /\ o < b.page_size

\* ------------------------------------------------------------ BufferCache
new ==
    [cache |-> EmptyCache, mode |-> "Fixed",
     buf_length |-> DefaultBufLength, page_size |-> DefaultPageSize,
     w_index |-> 0, r_index |-> 0, size |-> 0,
     w_page_index |-> 0, r_page_index |-> 0]

set_fixed_mode(b, buf_length, page_size) ==
    [cache |-> EmptyCache, mode |-> "Fixed",
     buf_length |-> buf_length, page_size |-> page_size,
     w_index |-> 0, r_index |-> 0, size |-> 0,
     w_page_index |-> 0, r_page_index |-> 0]

set_dynamic_mode(b, page_size) ==
    [cache |-> EmptyCache, mode |-> "Dynamic",
     buf_length |-> DynamicBufLength, page_size |-> page_size,
     w_index |-> 0, r_index |-> 0, size |-> 0,
     w_page_index |-> 0, r_page_index |-> 0]

capacity(b) ==
    IF b.mode = "Fixed" THEN b.page_size * b.buf_length - 1
    ELSE b.page_size * b.buf_length

is_full(b) == capacity(b) = b.size

Ok(b)    == [buf |-> b, panic |-> FALSE]
Panic(b) == [buf |-> b, panic |-> TRUE]


\* ------------------------------------------------- BufferCache::write
\* lines 404-408: for i in 0..k { cache[p][o + i] = data[i] }
RECURSIVE put_run(_, _, _, _, _, _)
put_run(c, p, o, data, k, i) ==
    IF i = k THEN c
    ELSE put_run(CachePut(c, p, o + i, data[i + 1]), p, o, data, k, i + 1)

\* lines 390-410: the loop of a write that fits, `index` elements still to store
RECURSIVE write_fit(_, _, _)
write_fit(b, data, index) ==
    IF index = 0 THEN Ok(b)
    ELSE IF b.w_index > b.page_size THEN Panic(b)   \* line 392 overflows, or 406 is out of range
    ELSE
      LET room         == b.page_size - b.w_index
          w_index      == b.w_index
          w_page_index == b.w_page_index
          wrote_size   == IF index < room THEN index ELSE room
          b1 == IF index < room
                THEN [b EXCEPT !.w_index = @ + index]
                ELSE [b EXCEPT !.w_page_index = (@ + 1) % b.buf_length, !.w_index = 0]
      IN  IF wrote_size > 0 /\ ~InRange(b, w_page_index, w_index + wrote_size - 1)
          THEN Panic(b)
          ELSE write_fit([b1 EXCEPT !.cache = put_run(b.cache, w_page_index, w_index,
                                                       data, wrote_size, 0)],
                         data, index - wrote_size)

\* lines 270-283: Fixed mode, target_len >= capacity
write_replace(b, data) ==
    LET target_len       == Len(data)
        start_data_index == target_len - capacity(b) - 1
        slots == (0 .. b.buf_length - 1) \X (0 .. b.page_size - 1)
        val(k) == data[start_data_index + k[1] * b.page_size + k[2] + 1]
    IN  IF start_data_index < 0
        THEN Panic(b)   \* line 272 overflows; unchecked, data[2^64 - 1] at line 276 is out of range
        ELSE Ok([b EXCEPT
                 !.cache = [k \in {x \in slots : val(x) # DefaultT} |-> val(k)],
                 !.size = b.buf_length * b.page_size - 1,
                 !.r_index = 0, !.r_page_index = 0,
                 !.w_index = b.page_size - 1,
                 !.w_page_index = b.buf_length - 1])

\* lines 287-295: the loop of an overlapping write; i elements stored so far
RECURSIVE overlap_loop(_, _, _, _, _, _)
overlap_loop(c, b, data, i, a_page_index, a_index) ==
    IF i = Len(data)
    THEN [cache |-> c, a_page_index |-> a_page_index, a_index |-> a_index, panic |-> FALSE]
    ELSE IF ~InRange(b, a_page_index, a_index)
    THEN [cache |-> c, a_page_index |-> a_page_index, a_index |-> a_index, panic |-> TRUE]
    ELSE IF a_index + 1 = b.page_size
    THEN overlap_loop(CachePut(c, a_page_index, a_index, data[i + 1]), b, data, i + 1,
                      BitAnd(a_page_index + 1, b.buf_length), 0)
    ELSE overlap_loop(CachePut(c, a_page_index, a_index, data[i + 1]), b, data, i + 1,
                      a_page_index, a_index + 1)

\* lines 284-306: Fixed mode, free < target_len < capacity
write_overlap(b, data) ==
    LET l == overlap_loop(b.cache, b, data, 0, b.w_page_index, b.w_index)
    IN  IF l.panic THEN Panic(b)
        ELSE Ok([b EXCEPT
                 !.cache = l.cache,
                 !.w_page_index = l.a_page_index,
                 !.w_index = l.a_index,
                 !.r_index = IF l.a_index + 1 = b.page_size THEN 0 ELSE l.a_index + 1,
                 !.r_page_index = IF l.a_index + 1 = b.page_size
                                  THEN (b.r_page_index + 1) % b.buf_length
                                  ELSE l.a_page_index,
                 !.size = capacity(b)])

\* lines 357-375: copy `left` elements from (r_page_index, r_index) to
\* (n_r_page_index, n_r_index), neither index wrapping
RECURSIVE move_loop(_, _, _, _, _, _, _)
move_loop(c, b, left, r_page_index, r_index, n_r_page_index, n_r_index) ==
    IF left = 0 THEN [cache |-> c, panic |-> FALSE]
    ELSE IF left < 0 \/ ~InRange(b, r_page_index, r_index)
                     \/ ~InRange(b, n_r_page_index, n_r_index)
    THEN [cache |-> c, panic |-> TRUE]   \* left < 0: more than 2^63 iterations leave the table
    ELSE move_loop(CachePut(c, n_r_page_index, n_r_index, CacheGet(c, r_page_index, r_index)),
                   b, left - 1,
                   IF r_index + 1 = b.page_size THEN r_page_index + 1 ELSE r_page_index,
                   IF r_index + 1 = b.page_size THEN 0 ELSE r_index + 1,
                   IF n_r_index + 1 = b.page_size THEN n_r_page_index + 1 ELSE n_r_page_index,
                   IF n_r_index + 1 = b.page_size THEN 0 ELSE n_r_index + 1)

\* lines 377-386: store data from (w_page_index, w_index); only the page index is a field
RECURSIVE grow_put(_, _, _, _, _, _)
grow_put(c, b, data, i, w_page_index, w_index) ==
    IF i = Len(data) THEN [cache |-> c, w_page_index |-> w_page_index, panic |-> FALSE]
    ELSE IF ~InRange(b, w_page_index, w_index)
    THEN [cache |-> c, w_page_index |-> w_page_index, panic |-> TRUE]
    ELSE grow_put(CachePut(c, w_page_index, w_index, data[i + 1]), b, data, i + 1,
                  IF w_index + 1 = b.page_size THEN w_page_index + 1 ELSE w_page_index,
                  IF w_index + 1 = b.page_size THEN 0 ELSE w_index + 1)

\* a growth that adds only the pages the batch needs
write_grow_by_need(b, data, checks) ==
    LET target_len        == Len(data)
        new_size          == b.size + target_len
        target_buf_length == b.buf_length + CeilDiv(target_len, b.page_size)
        old_buf_length    == b.buf_length
        b1 == [b EXCEPT !.size = new_size, !.buf_length = target_buf_length]
        w_behind_r == b.w_page_index <= b.r_page_index /\ b.w_index <= b.r_index
        \* lines 330-352: after the two assert_eq! the loop at 336 runs 0 times,
        \* new_w_index = w_index and new_w_page_index = old_buf_length
        b2 == IF w_behind_r THEN [b1 EXCEPT !.w_page_index = old_buf_length] ELSE b1
        m  == move_loop(b2.cache, b2, new_size, b2.r_page_index, b2.r_index,
                        b2.r_page_index, b2.r_index)
        g  == grow_put(m.cache, b2, data, 0, b2.w_page_index, b2.w_index)
    IN  IF checks /\ b.size < 0 /\ new_size >= 0 THEN Panic(b)             \* line 317 overflows
        ELSE IF w_behind_r /\ ~(b.w_index = 0 /\ b.w_page_index = 0) THEN Panic(b) \* 332, 333
        ELSE IF m.panic \/ g.panic THEN Panic(b)
        ELSE Ok([b2 EXCEPT !.cache = g.cache, !.w_page_index = g.w_page_index])

\* lines 308-387: Dynamic mode, target_len > capacity - size
write_grow(b, data, checks) ==
    LET target_len        == Len(data)
        new_size          == b.size + target_len
        target_buf_length == (b.buf_length + CeilDiv(target_len, b.page_size)) * 2
        old_buf_length    == b.buf_length
        b1 == [b EXCEPT !.size = new_size, !.buf_length = target_buf_length]
        w_behind_r == b.w_page_index <= b.r_page_index /\ b.w_index <= b.r_index
        \* lines 330-352: after the two assert_eq! the loop at 336 runs 0 times,
        \* new_w_index = w_index and new_w_page_index = old_buf_length
        b2 == IF w_behind_r THEN [b1 EXCEPT !.w_page_index = old_buf_length] ELSE b1
        m  == move_loop(b2.cache, b2, new_size, b2.r_page_index, b2.r_index,
                        b2.r_page_index, b2.r_index)
        g  == grow_put(m.cache, b2, data, 0, b2.w_page_index, b2.w_index)
    IN  IF checks /\ b.size < 0 /\ new_size >= 0 THEN Panic(b)             \* line 317 overflows
        ELSE IF w_behind_r /\ ~(b.w_index = 0 /\ b.w_page_index = 0) THEN Panic(b) \* 332, 333
        ELSE IF m.panic \/ g.panic THEN Panic(b)
        ELSE Ok([b2 EXCEPT !.cache = g.cache, !.w_page_index = g.w_page_index])

\* lines 390-411
write_append(b, data, checks) ==
    LET w == write_fit(b, data, Len(data))
    IN  IF w.panic THEN Panic(b)
        ELSE IF checks /\ b.size < 0 /\ b.size + Len(data) >= 0 THEN Panic(b)  \* line 411 overflows
        ELSE Ok([w.buf EXCEPT !.size = @ + Len(data)])

\* lines 265-412
write(b, data, checks) ==
    LET target_len == Len(data)
        free       == capacity(b) - b.size
    IN  IF checks /\ ULt(capacity(b), b.size) THEN Panic(b)   \* line 268 overflows
        ELSE IF ULt(free, target_len)
        THEN IF b.mode = "Fixed"
             THEN IF target_len >= capacity(b) THEN write_replace(b, data)
                  ELSE write_overlap(b, data)
             ELSE write_grow(b, data, checks)
        ELSE write_append(b, data, checks)

\* -------------------------------------------------- BufferCache::read
\* line 536
read_page_add(b) == [b EXCEPT !.r_page_index = (@ + 1) % b.buf_length]

\* cache[page][rs..re]
RECURSIVE slice(_, _, _, _)
slice(c, page, rs, re) ==
    IF rs >= re THEN <<>> ELSE <<CacheGet(c, page, rs)>> \o slice(c, page, rs + 1, re)

\* lines 445-516: the loop of read, `lens` elements still to copy
RECURSIVE read_loop(_, _, _)
read_loop(b, lens, res) ==
    IF lens = 0 THEN [buf |-> b, panic |-> FALSE, res |-> res]
    ELSE IF lens < 0
    THEN [buf |-> b, panic |-> TRUE, res |-> res]   \* 2^63 elements or more: the slice at 510 or the allocation at 509 fails
    ELSE IF b.r_index > b.page_size
    THEN [buf |-> b, panic |-> TRUE, res |-> res]   \* line 448 overflows, or the slice at 510 starts past the page
    ELSE
      LET read_index_start       == b.r_index
          cur_page_readable_size == b.page_size - b.r_index
          page_index             == b.r_page_index
          whole_rest == IF b.r_page_index = b.w_page_index /\ ~(b.r_index > b.w_index)
                        THEN TRUE                              \* lines 477, 478
                        ELSE cur_page_readable_size > lens     \* lines 460 and 497
          read_index_end == IF whole_rest THEN read_index_start + lens
                            ELSE read_index_start + cur_page_readable_size
          b1 == IF whole_rest THEN [b EXCEPT !.r_index = @ + lens]
                ELSE read_page_add([b EXCEPT !.r_index = 0])
      IN  IF ~(page_index < b.buf_length /\ read_index_end <= b.page_size)
          THEN [buf |-> b, panic |-> TRUE, res |-> res]
          ELSE read_loop(b1, lens - (read_index_end - read_index_start),
                         res \o slice(b.cache, page_index, read_index_start, read_index_end))

\* lines 435-528
read(b, length, checks) ==
    LET lens == IF ULt(b.size, length) THEN b.size ELSE length
        l    == read_loop(b, lens, <<>>)
        b1   == [l.buf EXCEPT !.size = @ - length]
    IN  IF lens = 0 THEN [buf |-> b, panic |-> FALSE, res |-> <<>>]
        ELSE IF l.panic THEN [buf |-> b, panic |-> TRUE, res |-> <<>>]
        ELSE IF checks /\ ULt(b.size, length)
        THEN [buf |-> b, panic |-> TRUE, res |-> <<>>]        \* line 517 overflows
        ELSE [buf |-> IF b1.size = 0
                      THEN [b1 EXCEPT !.w_page_index = 0, !.w_index = 0,
                                      !.r_page_index = 0, !.r_index = 0]
                      ELSE b1,
              panic |-> FALSE, res |-> l.res]


\* ---------------------------------------------------------- MsgQueueInner
Ids == 0 .. MaxConsumers - 1

\* a registry that builds every buffer with BufferCache::new alone
template_buffer_default(inn) == new

\* lines 129-139 and 146-156: the buffer a registry creates
template_buffer(inn) ==
    IF inn.mode = "Fixed" THEN set_fixed_mode(new, inn.buf_size, inn.block_length)
    ELSE IF inn.mode = "Dynamic" THEN set_dynamic_mode(new, inn.block_length)
    ELSE new

\* buf.insert(id, b)
Insert(buf, id, b) == [k \in DOMAIN buf \cup {id} |-> IF k = id THEN b ELSE buf[k]]

\* a registry that hands a new consumer a copy of a buffer it already holds
add_buffer_cache_replay(inn, id) ==
    IF id \notin DOMAIN inn.buf
    THEN [inn EXCEPT !.buf = Insert(inn.buf, id,
                                    IF DOMAIN inn.buf = {} THEN template_buffer(inn)
                                    ELSE inn.buf[CHOOSE k \in DOMAIN inn.buf : TRUE])]
    ELSE inn

\* a registry whose add_buffer_cache builds a new buffer for an id it already holds
add_buffer_cache_reset(inn, id) ==
    [inn EXCEPT !.buf = Insert(inn.buf, id, template_buffer(inn))]

\* lines 127-142
add_buffer_cache(inn, id) ==
    IF id \notin DOMAIN inn.buf
    THEN [inn EXCEPT !.buf = Insert(inn.buf, id, template_buffer(inn))]
    ELSE inn

\* lines 144-160: the registry after get_buffer_cache(id); the call returns buf[id] of it
get_buffer_cache(inn, id) ==
    IF id \notin DOMAIN inn.buf
    THEN [inn EXCEPT !.buf = Insert(inn.buf, id, template_buffer(inn))]
    ELSE inn

\* lines 162-166
delete_buffer_cache(inn, id) ==
    IF id \notin DOMAIN inn.buf
    THEN [inn EXCEPT !.buf = [k \in DOMAIN inn.buf \ {id} |-> inn.buf[k]]]
    ELSE inn

inner_set_dynamic(inn, block_length) ==
    [inn EXCEPT !.mode = "Dynamic", !.block_length = block_length]

inner_set_fixed(inn, block_length, buf_size) ==
    [inn EXCEPT !.mode = "Fixed", !.block_length = block_length, !.buf_size = buf_size]

\* ------------------------------------------------------------------ state
\* the elements of a batch of n elements written after `t` elements
Batch(t, n) == [i \in 1 .. n |-> t + i]

\* history: the number of elements the reads have returned so far
RECURSIVE SumLen(_, _)
SumLen(h, S) ==
    IF S = {} THEN 0
    ELSE LET i == CHOOSE x \in S : TRUE IN Len(h[i]) + SumLen(h, S \ {i})
TotalRead == SumLen(readout, Ids)

Init ==
    /\ inner = [buf |-> [k \in {} |-> new], mode |-> "None", buf_size |-> 0, block_length |-> 0]
    /\ serial_no = 0
    /\ running = FALSE
    /\ producers = 0
    /\ readers = {}
    /\ panic_at = "none"
    /\ overflow_checks \in BOOLEAN
    /\ total = 0
    /\ written = [i \in Ids |-> <<>>]
    /\ readout = [i \in Ids |-> <<>>]
    /\ overflowed = {}

panicked == panic_at # "none"

\* a call that panics: nothing of it is observed but the abort
Abort(call) ==
    /\ panic_at' = call
    /\ UNCHANGED <<inner, serial_no, running, producers, readers, overflow_checks,
                   total, written, readout, overflowed>>

\* the histories of the buffers of inn2 that inn1 does not hold start empty
Fresh(h, inn1, inn2) ==
    [i \in Ids |-> IF i \in DOMAIN inn2.buf /\ i \notin DOMAIN inn1.buf THEN <<>> ELSE h[i]]

\* a write of n elements takes the overwriting branch of a Fixed buffer (lines 268, 269)
Overflows(b, n) == b.mode = "Fixed" /\ ULt(capacity(b) - b.size, n)

\* --------------------------------------------------------------- MsgQueue
SetDynamic(block_length) ==
    /\ ~panicked
    /\ IF running
       THEN Abort("set_dynamic")
       ELSE /\ inner' = inner_set_dynamic(inner, block_length)
            /\ UNCHANGED <<serial_no, running, producers, readers, panic_at,
                           overflow_checks, total, written, readout, overflowed>>

\* a queue whose set_fixed does not look at `running`
SetFixed_unlocked(block_length, buf_size) ==
    /\ ~panicked
    /\ inner' = inner_set_fixed(inner, block_length, buf_size)
    /\ UNCHANGED <<serial_no, running, producers, readers, panic_at,
                   overflow_checks, total, written, readout, overflowed>>

SetFixed(block_length, buf_size) ==
    /\ ~panicked
    /\ IF running
       THEN Abort("set_fixed")
       ELSE /\ inner' = inner_set_fixed(inner, block_length, buf_size)
            /\ UNCHANGED <<serial_no, running, producers, readers, panic_at,
                           overflow_checks, total, written, readout, overflowed>>

\* a queue whose add_producer registers a buffer for the id serial_no
AddProducer_registering ==
    /\ ~panicked
    /\ producers < MaxProducers
    /\ producers' = producers + 1
    /\ inner' = add_buffer_cache(inner, serial_no % MaxConsumers)
    /\ UNCHANGED <<serial_no, running, readers, panic_at, overflow_checks,
                   total, written, readout, overflowed>>

AddProducer ==
    /\ ~panicked
    /\ producers < MaxProducers
    /\ producers' = producers + 1
    /\ UNCHANGED <<inner, serial_no, running, readers, panic_at, overflow_checks,
                   total, written, readout, overflowed>>

GetConsumer(id) ==
    /\ ~panicked
    /\ running' = TRUE
    /\ inner' = add_buffer_cache(inner, id)
    /\ readers' = readers \cup {id}
    /\ written' = Fresh(written, inner, inner')
    /\ readout' = Fresh(readout, inner, inner')
    /\ overflowed' = overflowed \ (DOMAIN inner'.buf \ DOMAIN inner.buf)
    /\ UNCHANGED <<serial_no, producers, panic_at, overflow_checks, total>>

AddConsumer ==
    /\ ~panicked
    /\ serial_no < MaxConsumers
    /\ running' = TRUE
    /\ serial_no' = serial_no + 1
    /\ inner' = add_buffer_cache(inner, serial_no)
    /\ readers' = readers \cup {serial_no}
    /\ written' = Fresh(written, inner, inner')
    /\ readout' = Fresh(readout, inner, inner')
    /\ overflowed' = overflowed \ (DOMAIN inner'.buf \ DOMAIN inner.buf)
    /\ UNCHANGED <<producers, panic_at, overflow_checks, total>>

DeleteConsumer(id) ==
    /\ ~panicked
    /\ inner' = delete_buffer_cache(inner, id)
    /\ UNCHANGED <<serial_no, running, producers, readers, panic_at, overflow_checks,
                   total, written, readout, overflowed>>

\* --------------------------------------------------------- MsgQueueWriter
\* a handle whose write stores data in one buffer of the registry only
WriterWrite_some(n) ==
    /\ ~panicked
    /\ producers > 0
    /\ total + n <= MaxTotal
    /\ LET data == Batch(total, n)
           w(i) == write(inner.buf[i], data, overflow_checks)
           one  == {i \in DOMAIN inner.buf : \A j \in DOMAIN inner.buf : i <= j}
       IN  IF \E i \in one : w(i).panic
           THEN Abort("write")
           ELSE /\ inner' = [inner EXCEPT !.buf = [i \in DOMAIN inner.buf |->
                                 IF i \in one THEN w(i).buf ELSE inner.buf[i]]]
                /\ total' = total + n
                /\ written' = [i \in Ids |-> IF i \in DOMAIN inner.buf
                                             THEN written[i] \o data ELSE written[i]]
                /\ overflowed' = overflowed \cup {i \in DOMAIN inner.buf : Overflows(inner.buf[i], n)}
                /\ UNCHANGED <<serial_no, running, producers, readers, panic_at,
                               overflow_checks, readout>>

\* lines 217-221: every buffer of the registry gets data
WriterWrite(n) ==
    /\ ~panicked
    /\ producers > 0
    /\ total + n <= MaxTotal
    /\ LET data == Batch(total, n)
           w(i) == write(inner.buf[i], data, overflow_checks)
       IN  IF \E i \in DOMAIN inner.buf : w(i).panic
           THEN Abort("write")
           ELSE /\ inner' = [inner EXCEPT !.buf = [i \in DOMAIN inner.buf |-> w(i).buf]]
                /\ total' = total + n
                /\ written' = [i \in Ids |-> IF i \in DOMAIN inner.buf
                                             THEN written[i] \o data ELSE written[i]]
                /\ overflowed' = overflowed \cup {i \in DOMAIN inner.buf : Overflows(inner.buf[i], n)}
                /\ UNCHANGED <<serial_no, running, producers, readers, panic_at,
                               overflow_checks, readout>>

\* --------------------------------------------------------- MsgQueueReader
\* a handle whose read takes `size` elements from every buffer of the registry
ReaderRead_all(id, size) ==
    /\ ~panicked
    /\ id \in readers
    /\ TotalRead + size <= MaxRead
    /\ IF id \notin DOMAIN inner.buf
       THEN Abort("read")
       ELSE LET r(i) == read(inner.buf[i], size, overflow_checks)
            IN  IF \E i \in DOMAIN inner.buf : r(i).panic
                THEN Abort("read")
                ELSE /\ inner' = [inner EXCEPT !.buf = [i \in DOMAIN inner.buf |-> r(i).buf]]
                     /\ readout' = [readout EXCEPT ![id] = @ \o r(id).res]
                     /\ UNCHANGED <<serial_no, running, producers, readers, panic_at,
                                    overflow_checks, total, written, overflowed>>

\* lines 195-198
ReaderRead(id, size) ==
    /\ ~panicked
    /\ id \in readers
    /\ TotalRead + size <= MaxRead
    /\ IF id \notin DOMAIN inner.buf
       THEN Abort("read")        \* unwrap on None
       ELSE LET r == read(inner.buf[id], size, overflow_checks)
            IN  IF r.panic
                THEN Abort("read")
                ELSE /\ inner' = [inner EXCEPT !.buf[id] = r.buf]
                     /\ readout' = [readout EXCEPT ![id] = @ \o r.res]
                     /\ UNCHANGED <<serial_no, running, producers, readers, panic_at,
                                    overflow_checks, total, written, overflowed>>

\* lines 203-207
ReaderSize(id) ==
    /\ ~panicked
    /\ id \in readers
    /\ inner' = get_buffer_cache(inner, id)
    /\ written' = Fresh(written, inner, inner')
    /\ readout' = Fresh(readout, inner, inner')
    /\ overflowed' = overflowed \ (DOMAIN inner'.buf \ DOMAIN inner.buf)
    /\ UNCHANGED <<serial_no, running, producers, readers, panic_at, overflow_checks, total>>

\* lines 199-202: size(), then read(size)
ReaderReadAll(id) ==
    /\ ~panicked
    /\ id \in readers
    /\ LET inn  == get_buffer_cache(inner, id)
           size == inn.buf[id].size
           r    == read(inn.buf[id], size, overflow_checks)
       IN  /\ TotalRead + size <= MaxRead
           /\ IF r.panic
              THEN Abort("read_all")
              ELSE /\ inner' = [inn EXCEPT !.buf[id] = r.buf]
                   /\ written' = Fresh(written, inner, inner')
                   /\ readout' = [Fresh(readout, inner, inner') EXCEPT ![id] = @ \o r.res]
                   /\ overflowed' = overflowed \ (DOMAIN inner'.buf \ DOMAIN inner.buf)
                   /\ UNCHANGED <<serial_no, running, producers, readers, panic_at,
                                  overflow_checks, total>>

Next ==
    \/ \E bl \in 1 .. MaxPageSize : SetDynamic(bl)
    \/ \E bl \in 1 .. MaxPageSize, bs \in 2 .. MaxPageCount : SetFixed(bl, bs)
    \/ AddProducer
    \/ \E id \in Ids : GetConsumer(id)
    \/ AddConsumer
    \/ \E id \in Ids : DeleteConsumer(id)
    \/ \E n \in 0 .. MaxTotal : WriterWrite(n)
    \/ \E id \in Ids, size \in 0 .. MaxRead : ReaderRead(id, size)
    \/ \E id \in Ids : ReaderSize(id)
    \/ \E id \in Ids : ReaderReadAll(id)

Spec == Init /\ [][Next]_vars


\* ======================================================================
\* Properties
\* ======================================================================
Bufs == DOMAIN inner.buf

Range(s) == {s[k] : k \in 1 .. Len(s)}

IsPrefix(s, t) == Len(s) <= Len(t) /\ \A k \in 1 .. Len(s) : s[k] = t[k]

\* the last k elements of s (all of s when it has fewer)
LastN(s, k) == IF Len(s) <= k THEN s ELSE SubSeq(s, Len(s) - k + 1, Len(s))

\* the size of b is a count below 2^63, and the free space of b admits n more elements
HasRoom(b, n) == b.size >= 0 /\ capacity(b) - b.size >= n

\* C1: fan-out.  A ProducerHandle.write(data) increases the size() of every
\* registered consumer buffer whose free space (capacity - size) is at least
\* len(data) by exactly len(data), for all such consumers at once.
C1_FanOut ==
    [][\A n \in 0 .. MaxTotal :
         WriterWrite(n) =>
           \A i \in Bufs :
             HasRoom(inner.buf[i], n) =>
               /\ ~panicked'
               /\ inner'.buf[i].size = inner.buf[i].size + n]_vars


\* what reading everything would return: read(size)
ReadAll(b) == read(b, b.size, overflow_checks)

\* everything buffer i holds or has returned was written to it, or is T::default()
OnlyOwnWrites(i) ==
    /\ \A k \in DOMAIN inner.buf[i].cache : inner.buf[i].cache[k] \in Range(written[i])
    /\ \A k \in 1 .. Len(readout[i]) : readout[i][k] \in Range(written[i]) \cup {DefaultT}

C3_Fifo ==
    \A i \in Bufs : i \notin overflowed => IsPrefix(readout[i], written[i])

\* C4: round trip.  On an empty buffer, write(data) with len(data) <= capacity()
\* followed by read_all() returns data and leaves size() = 0.
C4_RoundTrip ==
    \A i \in Bufs :
        inner.buf[i].size = 0 =>
            \A n \in 0 .. MaxTotal :
                n <= capacity(inner.buf[i]) =>
                    LET data == Batch(total, n)
                        w    == write(inner.buf[i], data, overflow_checks)
                        r    == ReadAll(w.buf)
                    IN  ~w.panic /\ ~r.panic /\ r.res = data /\ r.buf.size = 0

\* C5: Bounded-Overwrite full replace.  A write of n >= capacity() elements to a
\* Fixed buffer leaves size() = capacity(), the read cursor at page 0 offset 0,
\* and reading everything returns the last capacity() elements of the batch.
C5_FullReplace ==
    [][\A n \in 0 .. MaxTotal :
         WriterWrite(n) =>
           \A i \in Bufs :
             (inner.buf[i].mode = "Fixed" /\ n >= capacity(inner.buf[i])) =>
               /\ ~panicked'
               /\ inner'.buf[i].size = capacity(inner.buf[i])
               /\ inner'.buf[i].r_page_index = 0 /\ inner'.buf[i].r_index = 0
               /\ ~ReadAll(inner'.buf[i]).panic
               /\ ReadAll(inner'.buf[i]).res
                    = LastN(Batch(total, n), capacity(inner.buf[i]))]_vars

\* C6: Bounded-Overwrite eviction.  A write of n elements, free < n < capacity(),
\* to a Fixed buffer leaves size() = capacity(), and reading everything returns
\* the capacity() newest elements of the previously unread content followed by
\* the batch.
C6_Eviction ==
    [][\A n \in 0 .. MaxTotal :
         WriterWrite(n) =>
           \A i \in Bufs :
             LET b == inner.buf[i] IN
             (/\ b.mode = "Fixed" /\ b.size >= 0
              /\ capacity(b) - b.size < n /\ n < capacity(b)
              /\ ~ReadAll(b).panic) =>
               /\ ~panicked'
               /\ inner'.buf[i].size = capacity(b)
               /\ ~ReadAll(inner'.buf[i]).panic
               /\ ReadAll(inner'.buf[i]).res
                    = LastN(ReadAll(b).res \o Batch(total, n), capacity(b))]_vars

\* C7: a Fixed buffer has size() <= capacity() in every reachable state.
C7_SizeBound ==
    \A i \in Bufs :
        inner.buf[i].mode = "Fixed" => ~ULt(capacity(inner.buf[i]), inner.buf[i].size)

\* C8: a write on Fixed buffers completes normally for every batch length.
C8_WriteNeverFails ==
    [][\A n \in 0 .. MaxTotal :
         (WriterWrite(n) /\ \A i \in Bufs : inner.buf[i].mode = "Fixed")
            => ~panicked']_vars

\* C9: a Dynamic buffer that was only written has size() equal to the sum of
\* the written lengths, and capacity() >= size() holds in every reachable state.
C9_GrowSize ==
    \A i \in Bufs :
        inner.buf[i].mode = "Dynamic" =>
            /\ readout[i] = <<>> => inner.buf[i].size = Len(written[i])
            /\ ~ULt(capacity(inner.buf[i]), inner.buf[i].size)

\* C10: a Dynamic buffer never loses or overwrites data: every write and read
\* completes, and what was read followed by what remains unread is what was
\* written.
C10_NoLoss ==
    \A i \in Bufs :
        inner.buf[i].mode = "Dynamic" =>
            /\ panic_at \notin {"write", "read", "read_all"}
            /\ ~ReadAll(inner.buf[i]).panic
            /\ readout[i] \o ReadAll(inner.buf[i]).res = written[i]

\* the smaller of two counts
Min(a, b) == IF a < b THEN a ELSE b

\* C11: short read.  read(length) on a buffer holding size() elements, 0 <=
\* size() <= capacity(), completes, returns exactly min(length, size())
\* elements and leaves size() smaller by the number of elements returned; on
\* an empty buffer it returns nothing and leaves the buffer unchanged.
C11_ShortRead ==
    [][\A id \in Ids, length \in 0 .. MaxRead :
         (/\ ReaderRead(id, length)
          /\ id \in Bufs
          /\ inner.buf[id].size >= 0
          /\ inner.buf[id].size <= capacity(inner.buf[id])) =>
            LET b        == inner.buf[id]
                returned == Len(readout'[id]) - Len(readout[id])
            IN  /\ ~panicked'
                /\ returned = Min(length, b.size)
                /\ inner'.buf[id].size = b.size - returned
                /\ b.size = 0 => inner'.buf[id] = b]_vars

\* C12: set_fixed / set_dynamic on a queue whose is_running() is true fails
\* and leaves the registry, hence the template and the buffer a consumer
\* created afterwards gets, exactly as it was; on a queue whose is_running()
\* is false it completes and the template is the one given.
C12_ConfigureLocked ==
    [][/\ \A bl \in 1 .. MaxPageSize, bs \in 2 .. MaxPageCount :
            SetFixed(bl, bs) =>
              IF running
              THEN /\ panic_at' = "set_fixed"
                   /\ inner' = inner
                   /\ template_buffer(inner') = template_buffer(inner)
              ELSE /\ ~panicked'
                   /\ inner'.buf = inner.buf
                   /\ inner'.mode = "Fixed"
                   /\ inner'.block_length = bl /\ inner'.buf_size = bs
                   /\ template_buffer(inner').mode = "Fixed"
                   /\ template_buffer(inner').page_size = bl
                   /\ template_buffer(inner').buf_length = bs
       /\ \A bl \in 1 .. MaxPageSize :
            SetDynamic(bl) =>
              IF running
              THEN /\ panic_at' = "set_dynamic"
                   /\ inner' = inner
                   /\ template_buffer(inner') = template_buffer(inner)
              ELSE /\ ~panicked'
                   /\ inner'.buf = inner.buf
                   /\ inner'.mode = "Dynamic"
                   /\ inner'.block_length = bl
                   /\ template_buffer(inner').mode = "Dynamic"
                   /\ template_buffer(inner').page_size = bl]_vars

\* set_fixed has failed on a running queue configured as Dynamic, which holds
\* a Dynamic buffer
C12_Witness ==
    /\ panic_at = "set_fixed"
    /\ running
    /\ inner.mode = "Dynamic"
    /\ \E i \in Bufs : inner.buf[i].mode = "Dynamic" /\ inner.buf[i].size > 0

\* C13: is_running() is true exactly when a handle has been minted, by
\* add_producer, add_consumer or get_consumer: false on a new queue, true from
\* the first handle on (handles are never taken back, so it stays true).
C13_Lock ==
    running <=> (producers > 0 \/ readers # {})

\* C14: delete_consumer(id) on a registered id removes exactly that buffer
\* from the registry - one buffer fewer, id no longer a key, so that later
\* writes do not reach it - and on an id that is not registered it changes
\* nothing.
C14_Remove ==
    \A id \in Ids :
        LET inn == delete_buffer_cache(inner, id)
        IN  IF id \in Bufs
            THEN /\ DOMAIN inn.buf = Bufs \ {id}
                 /\ Cardinality(DOMAIN inn.buf) = Cardinality(Bufs) - 1
                 /\ \A j \in Bufs \ {id} : inn.buf[j] = inner.buf[j]
            ELSE inn = inner

\* C15: on an id that is already registered the ensure step of get_consumer,
\* add_consumer and size() (add_buffer_cache, get_buffer_cache) and the
\* locking of get_consumer leave the registry and is_running() as they are:
\* the same ids, and for that id the same size, page table and cursors; an
\* add_consumer() that draws a registered id leaves the registry unchanged and
\* returns a handle bound to that id, which reads that buffer.
C15_EnsureIdempotent ==
    /\ [](\A id \in Bufs :
            /\ add_buffer_cache(inner, id) = inner
            /\ get_buffer_cache(inner, id) = inner
            /\ running)
    /\ [][(serial_no' = serial_no + 1 /\ serial_no \in Bufs) =>   \* add_consumer
            /\ inner' = inner
            /\ serial_no \in readers'
            /\ written' = written /\ readout' = readout]_vars

\* add_consumer has drawn id 1 when buffer 1 was registered and held data:
\* buffer 1 has received more than buffer 0, so it is older than buffer 0,
\* which is at most as old as the first add_consumer
C15_Witness ==
    /\ serial_no = 2
    /\ {0, 1} \subseteq Bufs
    /\ Len(written[1]) > Len(written[0])
    /\ readout[1] = <<>>
    /\ inner.buf[1].size = Len(written[1])
    /\ ~panicked

\* C16: consumer isolation.  A read or read_all on a handle that returns
\* elements or fails leaves every buffer but the handle's own (size, page
\* table, cursors), the set of registered ids, is_running() and the template
\* as they were; one that returns nothing, and size(), change nothing at all:
\* the buffer of every handle is registered, so the ensure step of size()
\* creates none.
C16_Isolation ==
    /\ [](\A id \in readers : id \in Bufs /\ get_buffer_cache(inner, id) = inner)
    /\ [][(readout' # readout \/ panic_at' \in {"read", "read_all"}) =>
            /\ \E id \in readers :
                 \A j \in Ids \ {id} :
                    /\ readout'[j] = readout[j]
                    /\ j \in Bufs => inner'.buf[j] = inner.buf[j]
            /\ Bufs' = Bufs
            /\ running' = running
            /\ inner'.mode = inner.mode
            /\ inner'.block_length = inner.block_length
            /\ inner'.buf_size = inner.buf_size]_vars

\* two consumers received the same elements; one has read some of them, the
\* other has read nothing and still reports all of them
C16_Witness ==
    \E i, j \in Bufs :
        /\ i # j
        /\ written[i] = written[j]
        /\ readout[i] # <<>>
        /\ inner.buf[i].size = Len(written[i]) - Len(readout[i])
        /\ readout[j] = <<>>
        /\ inner.buf[j].size = Len(written[j])
        /\ ~panicked

AllWithin(n) ==
    \A i \in Bufs : readout[i] = <<>> /\ Len(written[i]) + n <= capacity(inner.buf[i])

\* C18: writes of two or more producers, each call made under the mutex
\* (one atomic step), in any order.  While no consumer reads and the total
\* written stays within capacity(), every write completes and adds its
\* length to the size() of every registered buffer, so that every consumer's
\* size() is the total number of elements written to it.
C18_SerializedWrites ==
    /\ [](producers >= 2 =>
            \A i \in Bufs :
               (readout[i] = <<>> /\ Len(written[i]) <= capacity(inner.buf[i]))
                  => inner.buf[i].size = Len(written[i]))
    /\ [][\A n \in 0 .. MaxTotal :
            (/\ producers >= 2
             /\ total' = total + n \/ panic_at' = "write"
             /\ AllWithin(n)
             /\ WriterWrite(n)) =>
                /\ ~panicked'
                /\ \A i \in Bufs :
                     /\ i \in Bufs'
                     /\ inner'.buf[i].size = inner.buf[i].size + n
                     /\ written'[i] = written[i] \o Batch(total, n)]_vars

\* two producers and two consumers; the writes were broadcast in at least two
\* calls (the consumers registered between two of them), no consumer has
\* read, and each reports all that was written to it
C18_Witness ==
    /\ producers >= 2
    /\ Bufs = {0, 1}
    /\ written[0] # <<>> /\ written[1] # <<>> /\ written[0] # written[1]
    /\ readout[0] = <<>> /\ readout[1] = <<>>
    /\ \A i \in Bufs : /\ Len(written[i]) <= capacity(inner.buf[i])
                       /\ inner.buf[i].size = Len(written[i])
    /\ ~panicked

\* the policy, page size and page count of the template: the built-in ones
\* while the queue was never configured
TemplatePolicy    == IF inner.mode = "None" THEN "Fixed" ELSE inner.mode
TemplatePageSize  == IF inner.mode = "None" THEN DefaultPageSize ELSE inner.block_length
TemplatePageCount == IF inner.mode = "None" THEN DefaultBufLength
                     ELSE IF inner.mode = "Fixed" THEN inner.buf_size ELSE DynamicBufLength

\* C19: a buffer is created empty with the policy, page size and page count
\* of the template in force (Fixed, 4096, 2 when the queue was never
\* configured); its policy and page size never change afterwards; in every
\* state all registered buffers have the policy and page size of the
\* template, hence the same ones.
C19_Template ==
    /\ [](\A i \in Bufs :
            /\ inner.buf[i].mode = TemplatePolicy
            /\ inner.buf[i].page_size = TemplatePageSize)
    /\ [][/\ \A i \in Bufs' \ Bufs :
               /\ inner'.buf[i].mode = TemplatePolicy
               /\ inner'.buf[i].page_size = TemplatePageSize
               /\ inner'.buf[i].buf_length = TemplatePageCount
               /\ inner'.buf[i].size = 0
          /\ \A i \in Bufs :
               /\ i \in Bufs'
               /\ inner'.buf[i].mode = inner.buf[i].mode
               /\ inner'.buf[i].page_size = inner.buf[i].page_size]_vars

\* a queue configured as Dynamic with page size 1 holds two buffers created at
\* different times, the older of which has grown
C19_Witness ==
    /\ inner.mode = "Dynamic" /\ inner.block_length = 1
    /\ Bufs = {0, 1}
    /\ Len(written[0]) # Len(written[1])
    /\ \E i \in Bufs : inner.buf[i].buf_length > DynamicBufLength
    /\ \A i \in Bufs : inner.buf[i].mode = "Dynamic" /\ inner.buf[i].page_size = 1

\* C20: cursor validity.  In every state both cursors of every buffer index
\* an existing slot: page index < buf_length and offset < page_size.
C20_CursorsValid ==
    \A i \in Bufs :
        LET b == inner.buf[i]
        IN  /\ InRange(b, b.w_page_index, b.w_index)
            /\ InRange(b, b.r_page_index, b.r_index)

\* the linear position of a cursor: page_index * page_size + offset
Position(b, page_index, index) == page_index * b.page_size + index

\* C21: cursor/size agreement.  In every state of a Fixed buffer,
\* (write position - read position) mod (buf_length * page_size) = size();
\* after an overflowing write of fewer than capacity() elements this makes the
\* read cursor the slot after the write cursor.
C21_CursorSize ==
    \A i \in Bufs :
        LET b == inner.buf[i]
        IN  b.mode = "Fixed" =>
              (Position(b, b.w_page_index, b.w_index)
                 - Position(b, b.r_page_index, b.r_index)) % (b.buf_length * b.page_size)
                = b.size

\* both cursors of b are at page 0 offset 0
AtOrigin(b) ==
    b.w_page_index = 0 /\ b.w_index = 0 /\ b.r_page_index = 0 /\ b.r_index = 0

\* C22: canonical empty state.  A read that leaves size() = 0 leaves all four
\* cursor components 0, and in every state of a buffer of either mode
\* size() = 0 implies that both cursors are at page 0 offset 0.
C22_CanonicalEmpty ==
    /\ [](\A i \in Bufs : inner.buf[i].size = 0 => AtOrigin(inner.buf[i]))
    /\ [][readout' # readout =>
            \A i \in Bufs :
               (readout'[i] # readout[i] /\ inner'.buf[i].size = 0)
                  => AtOrigin(inner'.buf[i])]_vars

\* C23: growth relocation.  Right after a write that grows a Dynamic buffer
\* the read cursor is at page 0 offset 0 and the write cursor is at linear
\* position size(): page size() div page_size, offset size() mod page_size.
C23_GrowRelocates ==
    [][total' # total =>
         \A i \in Bufs :
            LET b == inner.buf[i]
                c == inner'.buf[i]
            IN  (b.mode = "Dynamic" /\ c.buf_length # b.buf_length) =>
                  /\ c.r_page_index = 0 /\ c.r_index = 0
                  /\ c.w_page_index = c.size \div c.page_size
                  /\ c.w_index = c.size % c.page_size]_vars

\* C24: growth size.  A completed write of n elements to a Dynamic buffer
\* that does not fit (n > capacity() - size()) changes buf_length from p to
\* exactly (p + ceil(n / page_size)) * 2, so that capacity() strictly
\* increases and is at least the new size(); one that fits leaves buf_length
\* and capacity() unchanged.
C24_GrowthSize ==
    [][total' # total =>
         \A i \in Bufs :
            LET b == inner.buf[i]
                c == inner'.buf[i]
                n == total' - total
            IN  b.mode = "Dynamic" =>
                  IF ULt(capacity(b) - b.size, n)
                  THEN /\ c.buf_length = (b.buf_length + CeilDiv(n, b.page_size)) * 2
                       /\ capacity(c) > capacity(b)
                       /\ ~ULt(capacity(c), c.size)
                       /\ c.size = b.size + n
                  ELSE /\ c.buf_length = b.buf_length
                       /\ capacity(c) = capacity(b)]_vars

\* a Dynamic buffer with page size 1 was filled exactly (2 pages, 2 elements,
\* is_full) and has grown on one more element: size 3, (2 + 1) * 2 = 6 pages
C24_Witness ==
    \E i \in Bufs :
        /\ inner.buf[i].mode = "Dynamic" /\ inner.buf[i].page_size = 1
        /\ Len(written[i]) = 3 /\ readout[i] = <<>>
        /\ inner.buf[i].size = 3
        /\ inner.buf[i].buf_length = 6
        /\ capacity(inner.buf[i]) = 6

\* C25: every add_consumer() registers a new buffer: the id it draws was not
\* registered before the call, the number of registered buffers grows by
\* exactly one, and the size() of the returned handle, bound to that id, is 0.
C25_NewConsumer ==
    [][serial_no' = serial_no + 1 =>                 \* add_consumer
         /\ serial_no \notin Bufs
         /\ serial_no \in Bufs'
         /\ Cardinality(Bufs') = Cardinality(Bufs) + 1
         /\ serial_no \in readers'
         /\ inner'.buf[serial_no].size = 0]_vars

=============================================================================
